---- MODULE Spec2Model ----
(***************************************************************************)
(* Verification model of the prototype taxonomy (src/asset/proto.rs) and   *)
(* the geometry primitives (src/graphics/mod.rs).                          *)
(*                                                                         *)
(* The code is a library of pure functions over immutable values.  Each    *)
(* group of functions is modelled as a small caller: Init draws the        *)
(* arguments from bounded sets, one action per function applies it and     *)
(* stores what it returned.  Rust's Option<T> is the record None or        *)
(* Some(v); a call not made yet is NotCalled.                              *)
(***************************************************************************)
EXTENDS Integers, Sequences, FiniteSets, TLC

VARIABLES
    proto,      \* the Proto a loader produced
    ret,        \* what each method of proto returned: method name -> result
    iv1, iv2,   \* two ItemVariant values
    sv,         \* a SceneryVariant value
    k1, k2, sk, \* what kind() returned on iv1, iv2, sv
    overflow_checks, \* the build profile: does i32 overflow panic or wrap
    a, b,       \* two Rect values
    r,          \* what a.intersect(&b) returned
    e,          \* the last is_empty() call: its receiver and what it returned
    built,      \* the last Rect constructor call: its arguments and result
    q,          \* the last contains() call on the built Rect
    pa, pb,     \* two i32 values
    neg,        \* the negated point Point::new(-pa, -pb)
    sum,        \* Point::new(pa, pb).add(neg)
    iters       \* the iterators proto_entity_kinds() returned, as consumed

protoVars == <<proto, ret>>
subVars   == <<iv1, iv2, sv, k1, k2, sk>>
isectVars == <<a, b, r, e>>
contVars  == <<built, q>>
pointVars == <<pa, pb, neg, sum>>
vars      == <<proto, ret, iv1, iv2, sv, k1, k2, sk, overflow_checks,
               a, b, r, e, built, q, pa, pb, neg, sum, iters>>

(***************************************************************************)
(* Bounds                                                                  *)
(***************************************************************************)
\* Scalar payload fields (armor_class, capacity, key id, ...) range over
\* 0..MaxField.
MaxField == 1

\* Rect coordinates of the intersect caller range over 0..MaxCoord.
MaxCoord == 2

\* i32 arguments of the constructors, of contains and of Point are taken
\* within Span of i32::MIN, of 0 and of i32::MAX; sizes from 0..Span+1.
Span == 1

\* proto_entity_kinds() is invoked at most MaxIters times.
MaxIters == 3

Field == 0..MaxField

(***************************************************************************)
(* Option<T> and call results                                              *)
(***************************************************************************)
None      == [tag |-> "None"]
Some(v)   == [tag |-> "Some", val |-> v]
NotCalled == [tag |-> "NotCalled"]
Ret(v)    == [tag |-> "Ret", val |-> v]

(***************************************************************************)
(* src/asset/proto.rs: the data model                                      *)
(***************************************************************************)
\* enum LadderKind { Up, Down }
LadderKind == {"LadderKind::Up", "LadderKind::Down"}

\* enum ItemVariant: a case tag and the case's payload struct.
ItemVariant ==
    [tag : {"Armor"},     v : [armor_class : Field]]
    \cup [tag : {"Container"}, v : [capacity : Field]]
    \cup [tag : {"Drug"},      v : [addiction_chance : Field]]
    \cup [tag : {"Weapon"},    v : [min_strength : Field]]
    \cup [tag : {"Ammo"},      v : [caliber : Field]]
    \cup [tag : {"Misc"},      v : [max_charges : Field]]
    \cup [tag : {"Key"},       v : [id : Field]]

\* struct Item
Item == [size : Field, item : ItemVariant]

\* struct Critter
Critter == [experience : Field]

\* enum SceneryVariant; its Misc case carries no payload.
SceneryVariant ==
    [tag : {"Door"},     v : [key_id : Field]]
    \cup [tag : {"Stairs"},   v : [map_id : Field]]
    \cup [tag : {"Elevator"}, v : [level : Field]]
    \cup [tag : {"Ladder"},   v : [kind : LadderKind, elevation_and_tile : Field]]
    \cup {[tag |-> "Misc"]}

\* struct Scenery
Scenery == [sound_id : Field, scenery : SceneryVariant]

\* struct Wall
Wall == [material : Field]

\* struct SqrTile
SqrTile == [material : Field]

\* enum Variant; its Misc case carries no payload.
Variant ==
    [tag : {"Item"},    v : Item]
    \cup [tag : {"Critter"}, v : Critter]
    \cup [tag : {"Scenery"}, v : Scenery]
    \cup [tag : {"Wall"},    v : Wall]
    \cup [tag : {"SqrTile"}, v : SqrTile]
    \cup {[tag |-> "Misc"]}

\* struct Proto
Proto == [message_id : Field, proto : Variant]

(***************************************************************************)
(* src/asset/proto.rs: classification                                      *)
(***************************************************************************)
\* A plausible slip: the Key arm copied from the Misc arm.
ItemVariant_kind_KeyAsMisc(self) ==
    CASE self.tag = "Armor"     -> "ItemKind::Armor"
      [] self.tag = "Container" -> "ItemKind::Container"
      [] self.tag = "Drug"      -> "ItemKind::Drug"
      [] self.tag = "Weapon"    -> "ItemKind::Weapon"
      [] self.tag = "Ammo"      -> "ItemKind::Ammo"
      [] self.tag = "Misc"      -> "ItemKind::Misc"
      [] self.tag = "Key"       -> "ItemKind::Misc"

\* ItemVariant::kind
ItemVariant_kind(self) ==
    CASE self.tag = "Armor"     -> "ItemKind::Armor"
      [] self.tag = "Container" -> "ItemKind::Container"
      [] self.tag = "Drug"      -> "ItemKind::Drug"
      [] self.tag = "Weapon"    -> "ItemKind::Weapon"
      [] self.tag = "Ammo"      -> "ItemKind::Ammo"
      [] self.tag = "Misc"      -> "ItemKind::Misc"
      [] self.tag = "Key"       -> "ItemKind::Key"

\* A plausible slip: the ladder's direction ignored.
SceneryVariant_kind_LadderAlwaysUp(self) ==
    CASE self.tag = "Door"     -> "SceneryKind::Door"
      [] self.tag = "Stairs"   -> "SceneryKind::Stairs"
      [] self.tag = "Elevator" -> "SceneryKind::Elevator"
      [] self.tag = "Ladder"   -> "SceneryKind::LadderUp"
      [] self.tag = "Misc"     -> "SceneryKind::Misc"

\* SceneryVariant::kind
SceneryVariant_kind(self) ==
    CASE self.tag = "Door"     -> "SceneryKind::Door"
      [] self.tag = "Stairs"   -> "SceneryKind::Stairs"
      [] self.tag = "Elevator" -> "SceneryKind::Elevator"
      [] self.tag = "Ladder"   ->
            (CASE self.v.kind = "LadderKind::Up"   -> "SceneryKind::LadderUp"
               [] self.v.kind = "LadderKind::Down" -> "SceneryKind::LadderDown")
      [] self.tag = "Misc"     -> "SceneryKind::Misc"

\* A plausible slip: the Scenery arm copied from the Misc arm.
Variant_kind_SceneryAsMisc(self) ==
    CASE self.tag = "Item"    ->
            [tag |-> "ExactEntityKind::Item", kind |-> ItemVariant_kind(self.v.item)]
      [] self.tag = "Critter" -> [tag |-> "ExactEntityKind::Critter"]
      [] self.tag = "Scenery" -> [tag |-> "ExactEntityKind::Misc"]
      [] self.tag = "Wall"    -> [tag |-> "ExactEntityKind::Wall"]
      [] self.tag = "SqrTile" -> [tag |-> "ExactEntityKind::SqrTile"]
      [] self.tag = "Misc"    -> [tag |-> "ExactEntityKind::Misc"]

\* Variant::kind
Variant_kind(self) ==
    CASE self.tag = "Item"    ->
            [tag |-> "ExactEntityKind::Item", kind |-> ItemVariant_kind(self.v.item)]
      [] self.tag = "Critter" -> [tag |-> "ExactEntityKind::Critter"]
      [] self.tag = "Scenery" ->
            [tag |-> "ExactEntityKind::Scenery",
             kind |-> SceneryVariant_kind(self.v.scenery)]
      [] self.tag = "Wall"    -> [tag |-> "ExactEntityKind::Wall"]
      [] self.tag = "SqrTile" -> [tag |-> "ExactEntityKind::SqrTile"]
      [] self.tag = "Misc"    -> [tag |-> "ExactEntityKind::Misc"]

\* Proto::kind
Proto_kind(self) == Variant_kind(self.proto)

(***************************************************************************)
(* src/asset/proto.rs: narrowing accessors                                 *)
(***************************************************************************)
\* Variant::item
Variant_item(self) == IF self.tag = "Item" THEN Some(self.v) ELSE None

\* Variant::critter
Variant_critter(self) == IF self.tag = "Critter" THEN Some(self.v) ELSE None

\* Variant::scenery
Variant_scenery(self) == IF self.tag = "Scenery" THEN Some(self.v) ELSE None

\* A plausible slip: wall() matching the SqrTile case as well.
Variant_wall_MatchesSqrTile(self) ==
    IF self.tag \in {"Wall", "SqrTile"} THEN Some(self.v) ELSE None

\* Variant::wall
Variant_wall(self) == IF self.tag = "Wall" THEN Some(self.v) ELSE None

\* Variant::sqr_tile
Variant_sqr_tile(self) == IF self.tag = "SqrTile" THEN Some(self.v) ELSE None

\* Variant::is_misc
Variant_is_misc(self) == IF self.tag = "Misc" THEN TRUE ELSE FALSE


(***************************************************************************)
(* i32 arithmetic.  The operators + and unary - on i32 panic on overflow   *)
(* when the build has overflow checks (the debug profile) and wrap in      *)
(* two's complement when it has not (the release profile).  The sums are   *)
(* computed without leaving the 32-bit range.                              *)
(***************************************************************************)
\* i32::max_value()
I32Max == 2147483647

\* i32::min_value()
I32Min == -I32Max - 1

Ok(v) == [tag |-> "Ok", val |-> v]
Panic == [tag |-> "Panic"]

\* i32 + i32
I32Add(x, y) ==
    IF y > 0 /\ x > I32Max - y
    THEN IF overflow_checks THEN Panic ELSE Ok((x + I32Min) + (y + I32Min))
    ELSE IF y < 0 /\ x < I32Min - y
    THEN IF overflow_checks THEN Panic ELSE Ok((x - I32Min) + (y - I32Min))
    ELSE Ok(x + y)

\* -i32
I32Neg(x) ==
    IF x = I32Min
    THEN IF overflow_checks THEN Panic ELSE Ok(I32Min)
    ELSE Ok(-x)

\* cmp::max, cmp::min
Max(x, y) == IF x >= y THEN x ELSE y
Min(x, y) == IF x <= y THEN x ELSE y

(***************************************************************************)
(* src/graphics/mod.rs: Point                                              *)
(***************************************************************************)
\* Point::new
Point_new(x, y) == [x |-> x, y |-> y]

\* Point::add (and ops::Add for Point, which calls it)
Point_add(self, p) ==
    LET x == I32Add(self.x, p.x)
        y == I32Add(self.y, p.y)
    IN  IF x = Panic \/ y = Panic THEN Panic ELSE Ok(Point_new(x.val, y.val))

\* ops::Neg for Point
Point_neg(self) ==
    LET x == I32Neg(self.x)
        y == I32Neg(self.y)
    IN  IF x = Panic \/ y = Panic THEN Panic ELSE Ok([x |-> x.val, y |-> y.val])

(***************************************************************************)
(* src/graphics/mod.rs: Rect                                               *)
(***************************************************************************)
\* Rect::empty
Rect_empty == [left |-> 0, top |-> 0, right |-> 0, bottom |-> 0]

\* A plausible slip: full() starting at the origin like empty().
Rect_full_FromOrigin ==
    [left |-> 0, top |-> 0, right |-> I32Max, bottom |-> I32Max]

\* Rect::full
Rect_full ==
    [left |-> I32Min, top |-> I32Min, right |-> I32Max, bottom |-> I32Max]

\* Rect::with_size
Rect_with_size(left, top, width, height) ==
    LET right  == I32Add(left, width)
        bottom == I32Add(top, height)
    IN  IF right = Panic \/ bottom = Panic
        THEN Panic
        ELSE Ok([left |-> left, top |-> top,
                 right |-> right.val, bottom |-> bottom.val])

\* Rect::with_points
Rect_with_points(top_left, bottom_right) ==
    [left |-> top_left.x, top |-> top_left.y,
     right |-> bottom_right.x, bottom |-> bottom_right.y]

\* A plausible slip: the right edge taken with max like the left one.
Rect_intersect_RightByMax(self, other) ==
    [left   |-> Max(self.left, other.left),
     top    |-> Max(self.top, other.top),
     right  |-> Max(self.right, other.right),
     bottom |-> Min(self.bottom, other.bottom)]

\* Rect::intersect
Rect_intersect(self, other) ==
    [left   |-> Max(self.left, other.left),
     top    |-> Max(self.top, other.top),
     right  |-> Min(self.right, other.right),
     bottom |-> Min(self.bottom, other.bottom)]

\* Rect::is_empty
Rect_is_empty(self) ==
    self.left >= self.right /\ self.top >= self.bottom

\* A plausible slip: the right edge included.
Rect_contains_RightInclusive(self, x, y) ==
    x >= self.left /\ x <= self.right /\ y >= self.top /\ y < self.bottom

\* Rect::contains
Rect_contains(self, x, y) ==
    x >= self.left /\ x < self.right /\ y >= self.top /\ y < self.bottom

(***************************************************************************)
(* proto_entity_kinds.  EntityKind (crate::asset) and enum_iter, EnumIter  *)
(* (crate::util) are declared outside the files at hand; they are modelled *)
(* from the specification: EntityKind's enumerators in declaration order,  *)
(* the prototype kinds first and Misc the last of them, and an iterator    *)
(* over a contiguous range of ordinals.                                    *)
(***************************************************************************)
\* enum EntityKind, in declaration order
EntityKind ==
    <<"EntityKind::Item", "EntityKind::Critter", "EntityKind::Scenery",
      "EntityKind::Wall", "EntityKind::SqrTile", "EntityKind::Misc",
      "EntityKind::Interface", "EntityKind::Inventory", "EntityKind::Head",
      "EntityKind::Background", "EntityKind::Skilldex">>

\* The ordinal of an enumerator
Ordinal(k) == CHOOSE i \in 1..Len(EntityKind) : EntityKind[i] = k

\* enum_iter(..=end): from the first enumerator to end, end included
enum_iter_to_inclusive(end) == [i |-> 1, end |-> Ordinal(end)]

\* enum_iter(..end): from the first enumerator to end, end excluded
enum_iter_to(end) == [i |-> 1, end |-> Ordinal(end) - 1]

\* EnumIter::next: the item and the iterator advanced
EnumIter_next(it) ==
    IF it.i > it.end
    THEN [item |-> None, it |-> it]
    ELSE [item |-> Some(EntityKind[it.i]), it |-> [it EXCEPT !.i = @ + 1]]

\* A plausible slip: the range written ..Misc instead of ..=Misc.
proto_entity_kinds_Exclusive == enum_iter_to("EntityKind::Misc")

\* proto_entity_kinds
proto_entity_kinds == enum_iter_to_inclusive("EntityKind::Misc")

(***************************************************************************)
(* The inputs                                                              *)
(***************************************************************************)
\* i32 values near the ends of the range and near 0
EdgeCoord ==
    {I32Min + i : i \in 0..Span} \cup {i - Span : i \in 0..(2 * Span)}
        \cup {I32Max - i : i \in 0..Span}

\* widths and heights
EdgeSize == 0..(Span + 1)

\* coordinates of the rectangles that are intersected
Coord == 0..MaxCoord

\* Every Rect over Coord, inverted and degenerate ones included: the fields
\* are public and with_points takes any two points.
CoordRect ==
    {Rect_with_points(Point_new(l, t), Point_new(rr, bb)) :
        l \in Coord, t \in Coord, rr \in Coord, bb \in Coord}

(***************************************************************************)
(* The caller of one Proto: the loader hands it over, the caller probes it.*)
(***************************************************************************)
Methods == {"kind", "item", "critter", "scenery", "wall", "sqr_tile", "is_misc"}

ProtoInit ==
    /\ proto \in Proto
    /\ ret = [m \in Methods |-> NotCalled]

ProtoIdle ==
    /\ proto = [message_id |-> 0, proto |-> [tag |-> "Misc"]]
    /\ ret = [m \in Methods |-> NotCalled]

notProto == <<subVars, overflow_checks, isectVars, contVars, pointVars, iters>>

CallKind ==
    /\ ret["kind"] = NotCalled
    /\ ret' = [ret EXCEPT !["kind"] = Ret(Proto_kind(proto))]
    /\ UNCHANGED <<proto, notProto>>

CallItem ==
    /\ ret["item"] = NotCalled
    /\ ret' = [ret EXCEPT !["item"] = Variant_item(proto.proto)]
    /\ UNCHANGED <<proto, notProto>>

CallCritter ==
    /\ ret["critter"] = NotCalled
    /\ ret' = [ret EXCEPT !["critter"] = Variant_critter(proto.proto)]
    /\ UNCHANGED <<proto, notProto>>

CallScenery ==
    /\ ret["scenery"] = NotCalled
    /\ ret' = [ret EXCEPT !["scenery"] = Variant_scenery(proto.proto)]
    /\ UNCHANGED <<proto, notProto>>

CallWall ==
    /\ ret["wall"] = NotCalled
    /\ ret' = [ret EXCEPT !["wall"] = Variant_wall(proto.proto)]
    /\ UNCHANGED <<proto, notProto>>

CallSqrTile ==
    /\ ret["sqr_tile"] = NotCalled
    /\ ret' = [ret EXCEPT !["sqr_tile"] = Variant_sqr_tile(proto.proto)]
    /\ UNCHANGED <<proto, notProto>>

CallIsMisc ==
    /\ ret["is_misc"] = NotCalled
    /\ ret' = [ret EXCEPT !["is_misc"] = Ret(Variant_is_misc(proto.proto))]
    /\ UNCHANGED <<proto, notProto>>

ProtoNext ==
    \/ CallKind
    \/ CallItem
    \/ CallCritter
    \/ CallScenery
    \/ CallWall
    \/ CallSqrTile
    \/ CallIsMisc

(***************************************************************************)
(* The caller of ItemVariant::kind and SceneryVariant::kind.               *)
(***************************************************************************)
SubInit ==
    /\ iv1 \in ItemVariant
    /\ iv2 \in ItemVariant
    /\ sv \in SceneryVariant
    /\ k1 = NotCalled
    /\ k2 = NotCalled
    /\ sk = NotCalled

SubIdle ==
    /\ iv1 = [tag |-> "Key", v |-> [id |-> 0]]
    /\ iv2 = [tag |-> "Key", v |-> [id |-> 0]]
    /\ sv = [tag |-> "Misc"]
    /\ k1 = NotCalled
    /\ k2 = NotCalled
    /\ sk = NotCalled

notSub == <<protoVars, overflow_checks, isectVars, contVars, pointVars, iters>>

CallItemKind1 ==
    /\ k1 = NotCalled
    /\ k1' = Ret(ItemVariant_kind(iv1))
    /\ UNCHANGED <<iv1, iv2, sv, k2, sk, notSub>>

CallItemKind2 ==
    /\ k2 = NotCalled
    /\ k2' = Ret(ItemVariant_kind(iv2))
    /\ UNCHANGED <<iv1, iv2, sv, k1, sk, notSub>>

CallSceneryKind ==
    /\ sk = NotCalled
    /\ sk' = Ret(SceneryVariant_kind(sv))
    /\ UNCHANGED <<iv1, iv2, sv, k1, k2, notSub>>

SubNext ==
    \/ CallItemKind1
    \/ CallItemKind2
    \/ CallSceneryKind

(***************************************************************************)
(* The caller of Rect::intersect and Rect::is_empty.                       *)
(***************************************************************************)
IsectInit ==
    /\ a \in CoordRect
    /\ b \in CoordRect
    /\ r = NotCalled
    /\ e = NotCalled

IsectIdle ==
    /\ a = Rect_empty
    /\ b = Rect_empty
    /\ r = NotCalled
    /\ e = NotCalled

notIsect == <<protoVars, subVars, overflow_checks, contVars, pointVars, iters>>

\* let r = a.intersect(&b);
Intersect ==
    /\ r = NotCalled
    /\ r' = [lhs |-> a, rhs |-> b, val |-> Rect_intersect(a, b)]
    /\ UNCHANGED <<a, b, e, notIsect>>

\* r.is_empty()
IsEmptyOfIntersection ==
    /\ r # NotCalled
    /\ e = NotCalled
    /\ e' = [on |-> "r", rect |-> r.val, val |-> Rect_is_empty(r.val)]
    /\ UNCHANGED <<a, b, r, notIsect>>

\* a.is_empty()
IsEmptyOfOperand ==
    /\ r = NotCalled
    /\ e = NotCalled
    /\ e' = [on |-> "a", rect |-> a, val |-> Rect_is_empty(a)]
    /\ UNCHANGED <<a, b, r, notIsect>>

IsectNext ==
    \/ Intersect
    \/ IsEmptyOfIntersection
    \/ IsEmptyOfOperand

(***************************************************************************)
(* The caller of Rect::with_size, Rect::full and Rect::contains.           *)
(***************************************************************************)
ContInit ==
    /\ built = NotCalled
    /\ q = NotCalled

ContIdle == ContInit

notCont == <<protoVars, subVars, overflow_checks, isectVars, pointVars, iters>>

\* let rect = Rect::with_size(l, t, w, h);
WithSize ==
    /\ built = NotCalled
    /\ \E l \in EdgeCoord, t \in EdgeCoord, w \in EdgeSize, h \in EdgeSize :
          built' = [ctor |-> "with_size", l |-> l, t |-> t, w |-> w, h |-> h,
                    rect |-> Rect_with_size(l, t, w, h)]
    /\ UNCHANGED <<q, notCont>>

\* let rect = Rect::full();
Full ==
    /\ built = NotCalled
    /\ built' = [ctor |-> "full", rect |-> Ok(Rect_full)]
    /\ UNCHANGED <<q, notCont>>

\* rect.contains(x, y)
Contains ==
    /\ built # NotCalled
    /\ built.rect # Panic
    /\ q = NotCalled
    /\ \E x \in EdgeCoord, y \in EdgeCoord :
          q' = [x |-> x, y |-> y, val |-> Rect_contains(built.rect.val, x, y)]
    /\ UNCHANGED <<built, notCont>>

ContNext ==
    \/ WithSize
    \/ Full
    \/ Contains

(***************************************************************************)
(* The caller of Point: Point::new(pa, pb).add(Point::new(-pa, -pb)).      *)
(***************************************************************************)
PointInit ==
    /\ pa \in EdgeCoord
    /\ pb \in EdgeCoord
    /\ neg = NotCalled
    /\ sum = NotCalled

PointIdle ==
    /\ pa = 0
    /\ pb = 0
    /\ neg = NotCalled
    /\ sum = NotCalled

notPoint == <<protoVars, subVars, overflow_checks, isectVars, contVars, iters>>

\* Point::new(-pa, -pb)
NegateCoords ==
    /\ neg = NotCalled
    /\ LET x == I32Neg(pa)
           y == I32Neg(pb)
       IN  neg' = IF x = Panic \/ y = Panic
                  THEN Panic
                  ELSE Ok(Point_new(x.val, y.val))
    /\ UNCHANGED <<pa, pb, sum, notPoint>>

\* -Point::new(pa, pb)
NegatePoint ==
    /\ neg = NotCalled
    /\ neg' = Point_neg(Point_new(pa, pb))
    /\ UNCHANGED <<pa, pb, sum, notPoint>>

\* Point::new(pa, pb).add(neg); a panic of the negation ended the caller.
Add ==
    /\ neg # NotCalled
    /\ neg # Panic
    /\ sum = NotCalled
    /\ sum' = Point_add(Point_new(pa, pb), neg.val)
    /\ UNCHANGED <<pa, pb, neg, notPoint>>

PointNext ==
    \/ NegateCoords
    \/ NegatePoint
    \/ Add

(***************************************************************************)
(* The callers of proto_entity_kinds(): each invocation returns a fresh    *)
(* iterator, consumed by next() until it returns None.                     *)
(***************************************************************************)
IterInit == iters = <<>>

IterIdle == IterInit

notIter == <<protoVars, subVars, overflow_checks, isectVars, contVars, pointVars>>

\* let it = proto_entity_kinds();
Invoke ==
    /\ Len(iters) < MaxIters
    /\ iters' = Append(iters,
                       [it |-> proto_entity_kinds, yielded |-> <<>>, done |-> FALSE])
    /\ UNCHANGED notIter

\* it.next()
NextItem ==
    /\ \E n \in 1..Len(iters) :
          /\ ~iters[n].done
          /\ LET got == EnumIter_next(iters[n].it)
             IN  iters' = [iters EXCEPT ![n] =
                    IF got.item = None
                    THEN [@ EXCEPT !.it = got.it, !.done = TRUE]
                    ELSE [@ EXCEPT !.it = got.it,
                                   !.yielded = Append(@, got.item.val)]]
    /\ UNCHANGED notIter

IterNext ==
    \/ Invoke
    \/ NextItem

(***************************************************************************)
(* Specifications: one per caller; the other callers' variables rest.      *)
(***************************************************************************)
Init ==
    /\ ProtoInit /\ SubIdle /\ IsectIdle /\ ContIdle /\ PointIdle /\ IterIdle
    /\ overflow_checks = FALSE

Next == ProtoNext

Spec == Init /\ [][Next]_vars

InitSub ==
    /\ SubInit /\ ProtoIdle /\ IsectIdle /\ ContIdle /\ PointIdle /\ IterIdle
    /\ overflow_checks = FALSE

SpecSub == InitSub /\ [][SubNext]_vars

InitIntersect ==
    /\ IsectInit /\ ProtoIdle /\ SubIdle /\ ContIdle /\ PointIdle /\ IterIdle
    /\ overflow_checks = FALSE

SpecIntersect == InitIntersect /\ [][IsectNext]_vars

\* The build profile is either one.
InitContains ==
    /\ ContInit /\ ProtoIdle /\ SubIdle /\ IsectIdle /\ PointIdle /\ IterIdle
    /\ overflow_checks \in BOOLEAN

SpecContains == InitContains /\ [][ContNext]_vars

\* The build profile is either one.
InitPoint ==
    /\ PointInit /\ ProtoIdle /\ SubIdle /\ IsectIdle /\ ContIdle /\ IterIdle
    /\ overflow_checks \in BOOLEAN

SpecPoint == InitPoint /\ [][PointNext]_vars

InitKinds ==
    /\ IterInit /\ ProtoIdle /\ SubIdle /\ IsectIdle /\ ContIdle /\ PointIdle
    /\ overflow_checks = FALSE

SpecKinds == InitKinds /\ [][IterNext]_vars

(***************************************************************************)
(* The claims                                                              *)
(***************************************************************************)
OptionAccessors == {"item", "critter", "scenery", "wall", "sqr_tile"}

Accessors == OptionAccessors \cup {"is_misc"}

AllProbed == \A m \in Accessors : ret[m] # NotCalled

\* The accessor that belongs to each case of Variant.
AccessorOf(tag) ==
    CASE tag = "Item"    -> "item"
      [] tag = "Critter" -> "critter"
      [] tag = "Scenery" -> "scenery"
      [] tag = "Wall"    -> "wall"
      [] tag = "SqrTile" -> "sqr_tile"
      [] tag = "Misc"    -> "is_misc"

\* C1, as stated: once every narrowing accessor of a Variant has been
\* called, exactly one of them has returned Some(payload) and all the others
\* None, whichever of the six cases is active.
C1_ExactlyOneSome ==
    AllProbed =>
        /\ Cardinality({m \in Accessors : ret[m].tag = "Some"}) = 1
        /\ \A m \in Accessors : ret[m].tag \in {"Some", "None"}

\* C1, amended: once all six probes of a Variant have been called, exactly
\* one has answered positively, the one of the active case: item, critter,
\* scenery, wall and sqr_tile answer Some(payload) with the case's own
\* payload, is_misc answers true (Misc has no payload and no Option accessor);
\* the other four Option accessors answer None and is_misc answers false.
C1_ExactlyOnePositive ==
    AllProbed =>
        LET positive == {m \in OptionAccessors : ret[m].tag = "Some"}
                        \cup {m \in {"is_misc"} : ret[m] = Ret(TRUE)}
        IN  /\ positive = {AccessorOf(proto.proto.tag)}
            /\ \A m \in OptionAccessors :
                  /\ m \in positive => ret[m] = Some(proto.proto.v)
                  /\ m \notin positive => ret[m] = None
            /\ "is_misc" \notin positive => ret["is_misc"] = Ret(FALSE)

\* C1's case: a Misc prototype probed by all six accessors.
C1_Witness ==
    /\ AllProbed
    /\ proto.proto.tag = "Misc"
    /\ ret["is_misc"] = Ret(TRUE)

\* The ItemKind the claim names for each case of ItemVariant.
ItemKindOfCase(tag) ==
    CASE tag = "Armor"     -> "ItemKind::Armor"
      [] tag = "Container" -> "ItemKind::Container"
      [] tag = "Drug"      -> "ItemKind::Drug"
      [] tag = "Weapon"    -> "ItemKind::Weapon"
      [] tag = "Ammo"      -> "ItemKind::Ammo"
      [] tag = "Misc"      -> "ItemKind::Misc"
      [] tag = "Key"       -> "ItemKind::Key"

\* The SceneryKind the claim names for each case of SceneryVariant.
SceneryKindOfCase(s) ==
    CASE s.tag = "Door"     -> "SceneryKind::Door"
      [] s.tag = "Stairs"   -> "SceneryKind::Stairs"
      [] s.tag = "Elevator" -> "SceneryKind::Elevator"
      [] s.tag = "Misc"     -> "SceneryKind::Misc"
      [] s.tag = "Ladder" /\ s.v.kind = "LadderKind::Up"   -> "SceneryKind::LadderUp"
      [] s.tag = "Ladder" /\ s.v.kind = "LadderKind::Down" -> "SceneryKind::LadderDown"

\* C2: Proto::kind() (which delegates to Variant::kind()) returns
\* ExactEntityKind::Item(k) for an Item, k the ItemKind of its active
\* ItemVariant case, ExactEntityKind::Scenery(k) for a Scenery, k the
\* SceneryKind of its active SceneryVariant case, and Critter, Wall, SqrTile,
\* Misc for the cases of the same name; every Variant gets a kind.
C2_KindOfVariant ==
    ret["kind"] # NotCalled =>
        LET v == proto.proto
            k == ret["kind"].val
        IN  /\ v.tag = "Item" =>
                  k = [tag |-> "ExactEntityKind::Item",
                       kind |-> ItemKindOfCase(v.v.item.tag)]
            /\ v.tag = "Scenery" =>
                  k = [tag |-> "ExactEntityKind::Scenery",
                       kind |-> SceneryKindOfCase(v.v.scenery)]
            /\ v.tag = "Critter" => k = [tag |-> "ExactEntityKind::Critter"]
            /\ v.tag = "Wall"    => k = [tag |-> "ExactEntityKind::Wall"]
            /\ v.tag = "SqrTile" => k = [tag |-> "ExactEntityKind::SqrTile"]
            /\ v.tag = "Misc"    => k = [tag |-> "ExactEntityKind::Misc"]

\* C2's case: kind() called on a scenery prototype that is a ladder down.
C2_Witness ==
    /\ ret["kind"] # NotCalled
    /\ proto.proto.tag = "Scenery"
    /\ proto.proto.v.scenery.tag = "Ladder"
    /\ ret["kind"].val = [tag |-> "ExactEntityKind::Scenery",
                          kind |-> "SceneryKind::LadderDown"]

\* C3: SceneryVariant::kind() maps a Ladder of LadderKind::Up to LadderUp, a
\* Ladder of LadderKind::Down to LadderDown, and Door, Stairs, Elevator, Misc
\* to the SceneryKind of the same name, whatever the other payload fields.
C3_SceneryKind ==
    sk # NotCalled => sk.val = SceneryKindOfCase(sv)

\* C3's case: kind() called on a ladder down with a non-zero tile field.
C3_Witness ==
    /\ sk = Ret("SceneryKind::LadderDown")
    /\ sv.tag = "Ladder"
    /\ sv.v.elevation_and_tile = 1

\* C4: ItemVariant::kind() is injective on cases: two values of different
\* cases get different ItemKinds, two values of the same case the same
\* ItemKind whatever their payloads.
C4_ItemKindInjective ==
    (k1 # NotCalled /\ k2 # NotCalled) =>
        (iv1.tag = iv2.tag <=> k1.val = k2.val)

\* C4's case: kind() called on a Key and on a Misc item.
C4_Witness ==
    /\ k1 # NotCalled
    /\ k2 # NotCalled
    /\ iv1.tag = "Key"
    /\ iv2.tag = "Misc"
    /\ k1 # k2

\* No point of the coordinate range lies in both rectangles.  A common point
\* exists exactly when (max of the lefts, max of the tops) is one, and that
\* point has coordinates in Coord.
Disjoint(x, y) ==
    ~\E px \in Coord, py \in Coord :
        Rect_contains(x, px, py) /\ Rect_contains(y, px, py)

\* C5, as stated: for disjoint a and b, also when separated along one axis
\* only, a.intersect(b).is_empty() is true; and is_empty() is true of every
\* rectangle with left >= right or top >= bottom.
C5_DisjointIntersectionIsEmpty ==
    e # NotCalled =>
        /\ (e.on = "r" /\ Disjoint(a, b)) => e.val
        /\ (e.rect.left >= e.rect.right \/ e.rect.top >= e.rect.bottom) => e.val

\* C6, as stated: Point::new(a, b).add(Point::new(-a, -b)) is Point::new(0, 0)
\* for all i32 a and b, i32::MIN included, and nothing fails on the way.
C6_AddNegatedIsOrigin ==
    /\ neg # Panic
    /\ sum # Panic
    /\ sum # NotCalled => sum = Ok(Point_new(0, 0))

\* C7: for a rectangle built by with_size(l, t, w, h) with w, h > 0 and no
\* overflow, contains(x, y) is true exactly when l <= x < l + w and
\* t <= y < t + h: the corner (l, t) and (l+w-1, t+h-1) are contained,
\* (l+w, t+h) and every point with x < l or y < t are not.
C7_ContainsHalfOpen ==
    (/\ q # NotCalled
     /\ built.ctor = "with_size"
     /\ built.w > 0 /\ built.h > 0
     /\ built.l <= I32Max - built.w
     /\ built.t <= I32Max - built.h) =>
        LET l == built.l
            t == built.t
            rr == built.l + built.w
            bb == built.t + built.h
        IN  /\ q.val <=> (l <= q.x /\ q.x < rr /\ t <= q.y /\ q.y < bb)
            /\ (q.x = l /\ q.y = t) => q.val
            /\ (q.x = rr - 1 /\ q.y = bb - 1) => q.val
            /\ (q.x = rr /\ q.y = bb) => ~q.val
            /\ (q.x < l \/ q.y < t) => ~q.val
            /\ built.rect = Ok([left |-> l, top |-> t, right |-> rr, bottom |-> bb])

\* C7's case: the last contained point (l+w-1, t+h-1) of a 2 by 2 rectangle.
C7_Witness ==
    /\ q # NotCalled
    /\ built.ctor = "with_size"
    /\ built.w = 2 /\ built.h = 2
    /\ built.l = -1 /\ built.t = -1
    /\ q.x = 0 /\ q.y = 0
    /\ q.val

\* C8, as stated: Rect::full().contains(x, y) is true for every i32 x and y,
\* i32::MIN and i32::MAX included.
C8_FullContainsEveryPoint ==
    (q # NotCalled /\ built.ctor = "full") => q.val

\* C8, amended: Rect::full().contains(x, y) is true exactly when x < i32::MAX
\* and y < i32::MAX: true at i32::MIN on either axis, false at i32::MAX on
\* either axis (the right and bottom edges are exclusive).
C8_FullContainsAllButMax ==
    (q # NotCalled /\ built.ctor = "full") =>
        (q.val <=> (q.x < I32Max /\ q.y < I32Max))

\* C8's case: full() asked for the minimum corner.
C8_Witness ==
    /\ q # NotCalled
    /\ built.ctor = "full"
    /\ q.x = I32Min /\ q.y = I32Min
    /\ q.val

\* The enumerators declared up to and including Misc, in declaration order.
KindsThroughMisc == SubSeq(EntityKind, 1, Ordinal("EntityKind::Misc"))

IsPrefix(s, t) == Len(s) <= Len(t) /\ s = SubSeq(t, 1, Len(s))

\* C9: every sequence proto_entity_kinds() returns yields, in declaration
\* order and from the start, the enumerators up to and including Misc and
\* then ends: what it has yielded is always a prefix of them (so at most
\* Len(KindsThroughMisc) items and no kind declared after Misc), it ends only
\* after all of them, and this holds of every invocation however far the
\* sequences returned before were consumed.
C9_KindsThroughMisc ==
    \A n \in 1..Len(iters) :
        /\ IsPrefix(iters[n].yielded, KindsThroughMisc)
        /\ iters[n].done => iters[n].yielded = KindsThroughMisc
        /\ Len(iters[n].yielded) = Len(KindsThroughMisc) =>
              EnumIter_next(iters[n].it).item = None
        /\ \A i \in 1..Len(iters[n].yielded) :
              Ordinal(iters[n].yielded[i]) <= Ordinal("EntityKind::Misc")

\* C9's case: a sequence consumed to its end after an earlier one was left
\* half consumed.
C9_Witness ==
    /\ Len(iters) >= 2
    /\ Len(iters[1].yielded) = 3
    /\ ~iters[1].done
    /\ iters[2].done
    /\ iters[2].yielded[Len(iters[2].yielded)] = "EntityKind::Misc"

\* C10: a point is in a.intersect(b) exactly when it is in a and in b, for
\* all rectangles, empty and inverted ones included; intersect is commutative
\* and idempotent, and leaves its operands as they were.
C10_IntersectIsMeet ==
    r # NotCalled =>
        /\ \A px \in Coord, py \in Coord :
              Rect_contains(r.val, px, py)
                  <=> (Rect_contains(a, px, py) /\ Rect_contains(b, px, py))
        /\ r.val = Rect_intersect(b, a)
        /\ a = b => r.val = a
        /\ r.lhs = a /\ r.rhs = b

\* C10's case: two rectangles that overlap in part.
C10_Witness ==
    /\ r # NotCalled
    /\ a = [left |-> 0, top |-> 0, right |-> 2, bottom |-> 1]
    /\ b = [left |-> 1, top |-> 0, right |-> 2, bottom |-> 2]
    /\ r.val = [left |-> 1, top |-> 0, right |-> 2, bottom |-> 1]

====
